---- MODULE Spec2Model ----
(***************************************************************************)
(* sql-fs: a POSIX-style filesystem whose metadata and content live in     *)
(* three relations of a SQL store (tree, inodes, data_blocks) plus the     *)
(* sequence inode_seq.  The FUSE handlers of sqlfs/fs.go are the           *)
(* operations.  Every request is served on its own goroutine.  A           *)
(* serializable transaction takes effect in one step, at its commit, and   *)
(* a handler is split at the statements it issues outside its transaction: *)
(* Remove (GetNodeByName, CountNodesInDir, RemoveNodeByName) and Link      *)
(* (the GetNodeByID of CreateLink, then its commit).  Every step of a      *)
(* handler before its last only reads the store, so of two overlapping     *)
(* handlers the one that commits first behaves as if it ran alone at its   *)
(* commit: the model lets one handler at a time be suspended between its   *)
(* steps while any number of other handlers run from call to return.       *)
(***************************************************************************)
EXTENDS Integers, Sequences, FiniteSets, TLC

(***************************************************************************)
(* Program constants and bounds.                                           *)
(***************************************************************************)
rootInode == 1

BLOCK_SIZE == 1024

\* first value of sqlfs.inode_seq
SeqStart == 2

\* largest identifier the sequence hands out in the model
MaxInode == 3

\* a link is requested in the model only for an inode with fewer tree rows
MaxLinks == 2

\* and with a stored link count at most this far above its tree rows
MaxSkew == 1

\* number of fileNode handles the kernel holds besides the root handle
MaxHandles == 1

\* number of distinct request buffers a write may carry
NumBufs == 2

Names == {"a", "b"}

InodeIds == rootInode..MaxInode

HandleIds == 0..MaxHandles

(***************************************************************************)
(* Byte strings.  A []byte value is kept as the sequence of the slices of  *)
(* request buffers it is made of: <<[buf, lo, hi]>> is buf[lo:hi].  Two    *)
(* adjacent slices buf[a:b], buf[b:c] are the slice buf[a:c], so every     *)
(* value has one normal form and equal bytes have equal forms.             *)
(***************************************************************************)
Seg(b, lo, hi) == [buf |-> b, lo |-> lo, hi |-> hi]

NoBytes == << >>

\* len(bs)
RECURSIVE BLen(_)
BLen(bs) == IF bs = << >> THEN 0 ELSE (bs[1].hi - bs[1].lo) + BLen(Tail(bs))

\* bs[:k]
RECURSIVE BTake(_, _)
BTake(bs, k) ==
    IF k = 0 \/ bs = << >> THEN << >>
    ELSE LET n == bs[1].hi - bs[1].lo IN
         IF k >= n THEN <<bs[1]>> \o BTake(Tail(bs), k - n)
         ELSE <<Seg(bs[1].buf, bs[1].lo, bs[1].lo + k)>>

\* bs[k:]
RECURSIVE BDrop(_, _)
BDrop(bs, k) ==
    IF k = 0 \/ bs = << >> THEN bs
    ELSE LET n == bs[1].hi - bs[1].lo IN
         IF k >= n THEN BDrop(Tail(bs), k - n)
         ELSE <<Seg(bs[1].buf, bs[1].lo + k, bs[1].hi)>> \o Tail(bs)

\* append(x, y...)
BAppend(x, y) ==
    IF x = << >> THEN y
    ELSE IF y = << >> THEN x
    ELSE LET l == x[Len(x)]
             f == y[1]
         IN IF l.buf = f.buf /\ l.hi = f.lo
            THEN SubSeq(x, 1, Len(x) - 1) \o <<Seg(l.buf, l.lo, f.hi)>> \o Tail(y)
            ELSE x \o y

\* req.Data of a write request: a whole buffer of one of the lengths
DataLens == {0, BLOCK_SIZE, BLOCK_SIZE + 1, 3 * BLOCK_SIZE + 7}

Buffer(b, n) == IF n = 0 THEN NoBytes ELSE <<Seg(b, 0, n)>>

WriteInputs == {Buffer(b, n) : b \in 1..NumBufs, n \in DataLens}

(***************************************************************************)
(* fileNode and its stored form.                                           *)
(***************************************************************************)
\* the os.FileMode type bits; permission bits decide nothing
Modes == {"dir", "file", "symlink", "fifo"}

\* a fileNode value: the fields that reach the store or a decision
fileNode(inode, mode, nlink, size, target) ==
    [Inode |-> inode, Mode |-> mode, Nlink |-> nlink, Size |-> size,
     SymlinkTarget |-> target]

\* the absent node (nil *fileNode, sql.ErrNoRows)
NoNode == [Inode |-> 0, Mode |-> "none", Nlink |-> 0, Size |-> 0,
           SymlinkTarget |-> ""]

\* json.Marshal leaves out Inode, Name and fs
toJSON(n) ==
    [Mode |-> n.Mode, Nlink |-> n.Nlink, Size |-> n.Size,
     SymlinkTarget |-> n.SymlinkTarget]

\* no row of inodes for the key
NoRow == [Mode |-> "none", Nlink |-> 0, Size |-> 0, SymlinkTarget |-> ""]

\* json.Unmarshal into &fileNode{Inode: inode}
fromJSON(inode, row) ==
    fileNode(inode, row.Mode, row.Nlink, row.Size, row.SymlinkTarget)

IsDirectory(n) == n.Mode = "dir"

IsRegular(n) == n.Mode = "file"

\* fileSystem.Root
Root == fileNode(rootInode, "dir", 0, 0, "")

(***************************************************************************)
(* State.                                                                  *)
(***************************************************************************)
VARIABLES
    tree,         \* sqlfs.tree: set of rows [inode, parent, name]
    inodes,       \* sqlfs.inodes: inode -> struct_data, NoRow when absent
    data_blocks,  \* sqlfs.data_blocks: set of rows [inode, sequence, data]
    inode_seq,    \* sqlfs.inode_seq: the value nextval returns next
    handles,      \* the fileNode objects the kernel refers to; 0 is the root
    inflight,     \* the handler suspended between two of its statements
    resp          \* the reply of the handler that returned last

vars == <<tree, inodes, data_blocks, inode_seq, handles, inflight, resp>>

db == <<tree, inodes, data_blocks>>

\* no handler is suspended
Idle ==
    [pc |-> "idle", parent |-> 0, name |-> "", inode |-> 0, dir |-> FALSE,
     node |-> NoNode, slot |-> 0, data |-> NoBytes, count |-> 0]

\* a handler suspended before statement pc, and its locals
Busy(pc, parent, name, inode, dir, node, slot) ==
    [pc |-> pc, parent |-> parent, name |-> name, inode |-> inode,
     dir |-> dir, node |-> node, slot |-> slot, data |-> NoBytes, count |-> 0]

\* what a handler returned: the errno, how its transaction ended, the bytes
\* read, and for Rename the sql.Result row count that RenameNode discards
Response(op, err, tx, data, rows) ==
    [op |-> op, err |-> err, tx |-> tx, data |-> data, rows |-> rows]

Init ==
    /\ tree = {}
    /\ inodes = [i \in InodeIds |-> NoRow]
    /\ data_blocks = {}
    /\ inode_seq = SeqStart
    /\ handles = [h \in HandleIds |-> IF h = 0 THEN Root ELSE NoNode]
    /\ inflight = Idle
    /\ resp = Response("none", "ok", "none", NoBytes, 0)

(***************************************************************************)
(* Statements of the store.                                                *)
(***************************************************************************)
\* SELECT inode FROM tree WHERE parent = $1 and name = $2 LIMIT 1
TreeLookup(t, parent, name) ==
    {r.inode : r \in {x \in t : x.parent = parent /\ x.name = name}}

\* a tree without the UNIQUE (name, parent) index: every row is accepted
UniqueOK_NoIndex(t, parent, name) == TRUE

\* UNIQUE (name, parent): may a row for (parent, name) be added to t
UniqueOK(t, parent, name) ==
    \A r \in t : ~(r.parent = parent /\ r.name = name)

\* GetNodeByID: the node of a row, NoNode for sql.ErrNoRows
GetNodeByID(ino, inode) ==
    IF inode \in DOMAIN ino /\ ino[inode] # NoRow
    THEN fromJSON(inode, ino[inode])
    ELSE NoNode

\* GetNodeByName: the tree row, then the node row of its inode.  The two
\* SELECTs are taken together: a node row deleted between them makes the
\* call fail exactly as a call issued after the delete fails.
GetNodeByName(t, ino, parent, name) ==
    LET found == TreeLookup(t, parent, name) IN
    IF found = {} THEN NoNode
    ELSE GetNodeByID(ino, CHOOSE i \in found : TRUE)

\* a count that is one short, as a test `count > 1` in Remove would be
CountNodesInDir_OneShort(t, inode) == Cardinality({r \in t : r.parent = inode}) - 1

\* SELECT COUNT(*) FROM tree WHERE parent = $1
CountNodesInDir(t, inode) == Cardinality({r \in t : r.parent = inode})

\* SELECT COUNT(*) FROM tree WHERE inode = $1
CountRefs(t, inode) == Cardinality({r \in t : r.inode = inode})

\* the kernel refers to handle h
Held(h) == handles[h] # NoNode

\* a handler returns
Reply(op, err, tx) == resp' = Response(op, err, tx, NoBytes, 0)

(***************************************************************************)
(* UpsertNode, called by Mkdir, Create, Mknod and Symlink: one             *)
(* transaction that draws the identifier, adds the tree row and the node   *)
(* row.  The tree has a hidden rowid key, so its UPSERT is an INSERT that  *)
(* fails on UNIQUE (name, parent).  nextval is not undone by a rollback.   *)
(***************************************************************************)
\* UpsertNode without its second statement: no node row is written
UpsertNode_NoNodeRow(op, parent, name, newNode, slot) ==
    LET lastId == inode_seq IN
    /\ inode_seq <= MaxInode
    /\ inode_seq' = inode_seq + 1
    /\ IF UniqueOK(tree, parent, name)
       THEN /\ tree' = tree \cup {[inode |-> lastId, parent |-> parent, name |-> name]}
            /\ handles' = [handles EXCEPT ![slot] = [newNode EXCEPT !.Inode = lastId]]
            /\ Reply(op, "ok", "committed")
            /\ UNCHANGED inodes
       ELSE /\ UNCHANGED <<tree, inodes, handles>>
            /\ Reply(op, "EIO", "rolledback")
    /\ UNCHANGED <<data_blocks, inflight>>

\* UpsertNode on a sequence that hands out its value without advancing
UpsertNode_NoAdvance(op, parent, name, newNode, slot) ==
    LET lastId == inode_seq IN
    /\ inode_seq <= MaxInode
    /\ inode_seq' = inode_seq
    /\ IF UniqueOK(tree, parent, name)
       THEN /\ tree' = tree \cup {[inode |-> lastId, parent |-> parent, name |-> name]}
            /\ inodes' = [inodes EXCEPT ![lastId] = toJSON(newNode)]
            /\ handles' = [handles EXCEPT ![slot] = [newNode EXCEPT !.Inode = lastId]]
            /\ Reply(op, "ok", "committed")
       ELSE /\ UNCHANGED <<tree, inodes, handles>>
            /\ Reply(op, "EIO", "rolledback")
    /\ UNCHANGED <<data_blocks, inflight>>

UpsertNode(op, parent, name, newNode, slot) ==
    LET lastId == inode_seq IN
    /\ inode_seq <= MaxInode
    /\ inode_seq' = inode_seq + 1
    /\ IF UniqueOK(tree, parent, name)
       THEN /\ tree' = tree \cup {[inode |-> lastId, parent |-> parent, name |-> name]}
            /\ inodes' = [inodes EXCEPT ![lastId] = toJSON(newNode)]
            /\ handles' = [handles EXCEPT ![slot] = [newNode EXCEPT !.Inode = lastId]]
            /\ Reply(op, "ok", "committed")
       ELSE /\ UNCHANGED <<tree, inodes, handles>>
            /\ Reply(op, "EIO", "rolledback")
    /\ UNCHANGED <<data_blocks, inflight>>

\* fileNode.Mkdir: no check that the receiver is a directory
Mkdir(h, name, slot) ==
    /\ Held(h)
    /\ UpsertNode("mkdir", handles[h].Inode, name, fileNode(0, "dir", 2, 0, ""), slot)

\* fileNode.Create: no check that the receiver is a directory
Create(h, name, slot) ==
    /\ Held(h)
    /\ UpsertNode("create", handles[h].Inode, name, fileNode(0, "file", 1, 0, ""), slot)

\* fileNode.Mknod: req.Mode is a special file's mode
Mknod(h, name, slot) ==
    /\ Held(h)
    /\ UpsertNode("mknod", handles[h].Inode, name, fileNode(0, "fifo", 1, 0, ""), slot)

\* fileNode.Symlink: the receiver must be a directory
Symlink(h, name, slot) ==
    /\ Held(h)
    /\ IF ~IsDirectory(handles[h])
       THEN /\ Reply("symlink", "EIO", "none")
            /\ UNCHANGED <<tree, inodes, data_blocks, inode_seq, handles, inflight>>
       ELSE UpsertNode("symlink", handles[h].Inode, name,
                       fileNode(0, "symlink", 1, 0, "target"), slot)

\* fileNode.Lookup: any failure of GetNodeByName is reported as ENOENT
Lookup(h, name, slot) ==
    LET lookupNode == GetNodeByName(tree, inodes, handles[h].Inode, name) IN
    /\ Held(h)
    /\ IF ~IsDirectory(handles[h])
       THEN /\ Reply("lookup", "EIO", "none")
            /\ UNCHANGED handles
       ELSE IF lookupNode = NoNode
       THEN /\ Reply("lookup", "ENOENT", "none")
            /\ UNCHANGED handles
       ELSE /\ Reply("lookup", "ok", "none")
            /\ handles' = [handles EXCEPT ![slot] = lookupNode]
    /\ UNCHANGED <<tree, inodes, data_blocks, inode_seq, inflight>>

(***************************************************************************)
(* fileNode.Remove: GetNodeByName, CountNodesInDir when req.Dir, then the  *)
(* transaction of RemoveNodeByName with the inode resolved at the start.   *)
(***************************************************************************)
\* the committed relations after RemoveNodeByName(parent, name, inode).
\* When rows still reference the inode the function returns nil with its
\* transaction neither committed nor rolled back, so the DELETE of the
\* tree row never reaches the committed state.
\* RemoveNodeByName without the count of the rows left: it always cascades
RemoveNodeByName_NoCount(t, ino, blocks, parent, name, inode) ==
    [tx |-> "committed",
     tree |-> {r \in t : ~(r.parent = parent /\ r.name = name)},
     inodes |-> [i \in DOMAIN ino |-> IF i = inode THEN NoRow ELSE ino[i]],
     data_blocks |-> {b \in blocks : b.inode # inode}]

RemoveNodeByName(t, ino, blocks, parent, name, inode) ==
    LET tree1 == {r \in t : ~(r.parent = parent /\ r.name = name)}
        count == CountRefs(tree1, inode)
    IN IF count > 0
       THEN [tx |-> "open", tree |-> t, inodes |-> ino, data_blocks |-> blocks]
       ELSE [tx |-> "committed",
             tree |-> tree1,
             inodes |-> [i \in DOMAIN ino |-> IF i = inode THEN NoRow ELSE ino[i]],
             data_blocks |-> {b \in blocks : b.inode # inode}]

RemoveBegin(h, name, dir) ==
    LET toRemove == GetNodeByName(tree, inodes, handles[h].Inode, name) IN
    /\ inflight = Idle
    /\ Held(h)
    /\ IF toRemove = NoNode
       THEN /\ Reply("remove", "EIO", "none")
            /\ UNCHANGED inflight
       ELSE /\ inflight' = Busy(IF dir THEN "remove_count" ELSE "remove_tx",
                                handles[h].Inode, name, toRemove.Inode, dir,
                                NoNode, 0)
            /\ UNCHANGED resp
    /\ UNCHANGED <<tree, inodes, data_blocks, inode_seq, handles>>

RemoveCount ==
    /\ inflight.pc = "remove_count"
    /\ IF CountNodesInDir(tree, inflight.inode) > 0
       THEN /\ Reply("remove", "ENOTEMPTY", "none")
            /\ inflight' = Idle
       ELSE /\ inflight' = [inflight EXCEPT !.pc = "remove_tx"]
            /\ UNCHANGED resp
    /\ UNCHANGED <<tree, inodes, data_blocks, inode_seq, handles>>

RemoveCommit ==
    LET r == RemoveNodeByName(tree, inodes, data_blocks, inflight.parent,
                              inflight.name, inflight.inode)
    IN
    /\ inflight.pc = "remove_tx"
    /\ tree' = r.tree
    /\ inodes' = r.inodes
    /\ data_blocks' = r.data_blocks
    /\ Reply("remove", "ok", r.tx)
    /\ inflight' = Idle
    /\ UNCHANGED <<inode_seq, handles>>

\* fileNode.Remove from call to return, while another handler is suspended
RemoveWhole(h, name, dir) ==
    LET toRemove == GetNodeByName(tree, inodes, handles[h].Inode, name)
        r == RemoveNodeByName(tree, inodes, data_blocks, handles[h].Inode,
                              name, toRemove.Inode)
    IN
    /\ inflight # Idle
    /\ Held(h)
    /\ IF toRemove = NoNode
       THEN /\ Reply("remove", "EIO", "none")
            /\ UNCHANGED <<tree, inodes, data_blocks>>
       ELSE IF dir /\ CountNodesInDir(tree, toRemove.Inode) > 0
       THEN /\ Reply("remove", "ENOTEMPTY", "none")
            /\ UNCHANGED <<tree, inodes, data_blocks>>
       ELSE /\ tree' = r.tree
            /\ inodes' = r.inodes
            /\ data_blocks' = r.data_blocks
            /\ Reply("remove", "ok", r.tx)
    /\ UNCHANGED <<inode_seq, handles, inflight>>

(***************************************************************************)
(* fileNode.Link and CreateLink.  CreateLink writes the tree row inside    *)
(* its transaction, reads the node through db (outside the transaction),   *)
(* and writes the node row with Nlink + 1 inside it.  LinkBegin is the     *)
(* handler up to that read; LinkCommit is the rest: the UPSERT of the node *)
(* row, the commit, and the GetNodeByID that fills the returned node.      *)
(***************************************************************************)
\* may CreateLink go on after its first statement and its read
CreateLinkError(t, parent, name, toUpdate) ==
    ~UniqueOK(t, parent, name) \/ toUpdate = NoNode

\* toUpdate.Nlink += 1
IncNlink(toUpdate) == [toUpdate EXCEPT !.Nlink = @ + 1]

\* the commit of CreateLink: the tree row and the node row
CreateLink(parent, name, inode, toUpdate, slot) ==
    IF UniqueOK(tree, parent, name)
    THEN /\ tree' = tree \cup {[inode |-> inode, parent |-> parent, name |-> name]}
         /\ inodes' = [inodes EXCEPT ![inode] = toJSON(IncNlink(toUpdate))]
         /\ handles' = [handles EXCEPT ![slot] = IncNlink(toUpdate)]
         /\ Reply("link", "ok", "committed")
    ELSE /\ Reply("link", "EIO", "rolledback")
         /\ UNCHANGED <<tree, inodes, handles>>

LinkBegin(h, old, name, slot) ==
    LET toUpdate == GetNodeByID(inodes, handles[old].Inode) IN
    /\ inflight = Idle
    /\ Held(h)
    /\ Held(old)
    /\ IF ~IsDirectory(handles[h])
       THEN /\ Reply("link", "EIO", "none")
            /\ UNCHANGED inflight
       ELSE IF CreateLinkError(tree, handles[h].Inode, name, toUpdate)
       THEN /\ Reply("link", "EIO", "rolledback")
            /\ UNCHANGED inflight
       ELSE /\ inflight' = Busy("link_commit", handles[h].Inode, name,
                                handles[old].Inode, FALSE, toUpdate, slot)
            /\ UNCHANGED resp
    /\ UNCHANGED <<tree, inodes, data_blocks, inode_seq, handles>>

LinkCommit ==
    /\ inflight.pc = "link_commit"
    /\ CreateLink(inflight.parent, inflight.name, inflight.inode,
                  inflight.node, inflight.slot)
    /\ inflight' = Idle
    /\ UNCHANGED <<data_blocks, inode_seq>>

\* fileNode.Link from call to return, while another handler is suspended
LinkWhole(h, old, name, slot) ==
    LET toUpdate == GetNodeByID(inodes, handles[old].Inode) IN
    /\ inflight # Idle
    /\ Held(h)
    /\ Held(old)
    /\ IF ~IsDirectory(handles[h])
       THEN /\ Reply("link", "EIO", "none")
            /\ UNCHANGED <<tree, inodes, handles>>
       ELSE IF CreateLinkError(tree, handles[h].Inode, name, toUpdate)
       THEN /\ Reply("link", "EIO", "rolledback")
            /\ UNCHANGED <<tree, inodes, handles>>
       ELSE CreateLink(handles[h].Inode, name, handles[old].Inode, toUpdate, slot)
    /\ UNCHANGED <<data_blocks, inode_seq, inflight>>

(***************************************************************************)
(* fileNode.Rename and RenameNode: one UPDATE, no transaction.  No row for *)
(* the old name updates nothing and is no error.                           *)
(***************************************************************************)
\* the UPDATE with WHERE name = $3 only: it moves the name out of every parent
RenameNode_AnyParent(t, oldParent, oldName, newParent, newName) ==
    {IF r.name = oldName
     THEN [r EXCEPT !.parent = newParent, !.name = newName]
     ELSE r : r \in t}

RenameNode(t, oldParent, oldName, newParent, newName) ==
    {IF r.parent = oldParent /\ r.name = oldName
     THEN [r EXCEPT !.parent = newParent, !.name = newName]
     ELSE r : r \in t}

Rename(h, oldName, newDir, newName) ==
    LET oldParent == handles[h].Inode
        newParent == handles[newDir].Inode
        moved == {r \in tree : r.parent = oldParent /\ r.name = oldName}
        kept == tree \ moved
    IN
    /\ Held(h)
    /\ Held(newDir)
    /\ IF moved # {} /\ ~UniqueOK(kept, newParent, newName)
       THEN /\ Reply("rename", "EIO", "none")
            /\ UNCHANGED tree
       ELSE /\ tree' = RenameNode(tree, oldParent, oldName, newParent, newName)
            /\ resp' = Response("rename", "ok", "none", NoBytes, Cardinality(moved))
    /\ UNCHANGED <<inodes, data_blocks, inode_seq, handles, inflight>>

\* the loop with "sequence += 1" left out
RECURSIVE Chunks_SameSequence(_, _, _)
Chunks_SameSequence(inode, input, sequence) ==
    IF BLen(input) = 0 THEN {}
    ELSE IF BLen(input) > BLOCK_SIZE
    THEN {[inode |-> inode, sequence |-> sequence,
           data |-> BTake(input, BLOCK_SIZE)]}
         \cup Chunks_SameSequence(inode, BDrop(input, BLOCK_SIZE), sequence)
    ELSE {[inode |-> inode, sequence |-> sequence, data |-> input]}

(***************************************************************************)
(* Content: WriteData replaces every block of the inode and rewrites the   *)
(* node row from the handle; ReadData concatenates the blocks by sequence. *)
(***************************************************************************)
\* the INSERT loop of WriteData, from `sequence` on
RECURSIVE Chunks(_, _, _)
Chunks(inode, input, sequence) ==
    IF BLen(input) = 0 THEN {}
    ELSE IF BLen(input) > BLOCK_SIZE
    THEN {[inode |-> inode, sequence |-> sequence,
           data |-> BTake(input, BLOCK_SIZE)]}
         \cup Chunks(inode, BDrop(input, BLOCK_SIZE), sequence + 1)
    ELSE {[inode |-> inode, sequence |-> sequence, data |-> input]}

\* the SELECT with its rows in descending sequence
RECURSIVE ConcatFrom_Descending(_, _)
ConcatFrom_Descending(rows, data) ==
    IF rows = {} THEN data
    ELSE LET first == CHOOSE r \in rows : \A q \in rows : r.sequence >= q.sequence
         IN ConcatFrom_Descending(rows \ {first}, BAppend(data, first.data))

\* SELECT data FROM data_blocks WHERE inode = $1 ORDER BY sequence
RECURSIVE ConcatFrom(_, _)
ConcatFrom(rows, data) ==
    IF rows = {} THEN data
    ELSE LET first == CHOOSE r \in rows : \A q \in rows : r.sequence <= q.sequence
         IN ConcatFrom(rows \ {first}, BAppend(data, first.data))

ReadData(blocks, inode) ==
    ConcatFrom({b \in blocks : b.inode = inode}, NoBytes)

WriteData(h, data) ==
    LET n == [handles[h] EXCEPT !.Size = BLen(data)] IN
    /\ data_blocks' = {b \in data_blocks : b.inode # n.Inode}
                          \cup Chunks(n.Inode, data, 1)
    /\ inodes' = [inodes EXCEPT ![n.Inode] = toJSON(n)]
    /\ handles' = [handles EXCEPT ![h] = n]
    /\ Reply("write", "ok", "committed")
    /\ UNCHANGED <<tree, inode_seq, inflight>>

\* fileNode.Write
Write(h, data) ==
    /\ Held(h)
    /\ WriteData(h, data)

\* fileNode.Read with req.Offset 0 and req.Size no less than the content
Read(h) ==
    /\ Held(h)
    /\ resp' = Response("read", "ok", "none",
                        ReadData(data_blocks, handles[h].Inode), 0)
    /\ UNCHANGED <<tree, inodes, data_blocks, inode_seq, handles, inflight>>

(***************************************************************************)
(* fileNode.Write as two steps, for writes that overlap: the transaction   *)
(* of WriteData is begun and its DELETE run (WriteBegin), and later its    *)
(* INSERTs, its UPSERT and its commit take effect (WriteCommit).  What the *)
(* DELETE removed is kept as count; the content the transaction leaves is  *)
(* the content of its own statements on the state it commits on.           *)
(***************************************************************************)
\* WriteData with q1 left out: the old rows stay
WriteBlocks_NoDelete(blocks, inode, data) == blocks \cup Chunks(inode, data, 1)

\* the rows of data_blocks after q1 and the INSERT loop of WriteData
WriteBlocks(blocks, inode, data) ==
    {b \in blocks : b.inode # inode} \cup Chunks(inode, data, 1)

WriteBegin(h, data) ==
    /\ inflight = Idle
    /\ Held(h)
    /\ inflight' = [Idle EXCEPT
                       !.pc = "write_tx", !.slot = h, !.inode = handles[h].Inode,
                       !.data = data,
                       !.count = Cardinality({b \in data_blocks :
                                                b.inode = handles[h].Inode})]
    /\ UNCHANGED <<tree, inodes, data_blocks, inode_seq, handles, resp>>

WriteCommit ==
    LET h == inflight.slot
        n == [handles[h] EXCEPT !.Size = BLen(inflight.data)]
    IN
    /\ inflight.pc = "write_tx"
    /\ data_blocks' = WriteBlocks(data_blocks, n.Inode, inflight.data)
    /\ inodes' = [inodes EXCEPT ![n.Inode] = toJSON(n)]
    /\ handles' = [handles EXCEPT ![h] = n]
    /\ Reply("write", "ok", "committed")
    /\ inflight' = Idle
    /\ UNCHANGED <<tree, inode_seq>>

\* fileNode.Setattr with req.Valid.Size(): the size goes to the node object
\* and UpdateNode writes the node row; no statement touches data_blocks
Setattr(h, size) ==
    LET n == [handles[h] EXCEPT !.Size = size] IN
    /\ Held(h)
    /\ inodes' = [inodes EXCEPT ![n.Inode] = toJSON(n)]
    /\ handles' = [handles EXCEPT ![h] = n]
    /\ Reply("setattr", "ok", "none")
    /\ UNCHANGED <<tree, data_blocks, inode_seq, inflight>>

(***************************************************************************)
(* Store failures.  Any statement, BeginTx or Commit may return an error   *)
(* (a lost connection, a serialization conflict).  Each action below is a  *)
(* handler on the path where one of its statements fails: what the error   *)
(* branch of the code does, and what the handler returns.                  *)
(***************************************************************************)
\* Mkdir, Create, Mknod, Symlink when a statement of UpsertNode fails.
\* drawn: the failure came after q1 had drawn the identifier.
UpsertNodeFails(op, h, name, drawn) ==
    /\ Held(h)
    /\ op = "symlink" => IsDirectory(handles[h])
    /\ inode_seq <= MaxInode
    /\ inode_seq' = IF drawn THEN inode_seq + 1 ELSE inode_seq
    /\ Reply(op, "EIO", "rolledback")
    /\ UNCHANGED <<tree, inodes, data_blocks, handles, inflight>>

\* Lookup when a SELECT of GetNodeByName fails: every error is ENOENT
LookupFails(h, name) ==
    /\ Held(h)
    /\ IsDirectory(handles[h])
    /\ Reply("lookup", "ENOENT", "none")
    /\ UNCHANGED <<tree, inodes, data_blocks, inode_seq, handles, inflight>>

\* Remove when a SELECT of GetNodeByName fails
RemoveBeginFails(h, name) ==
    /\ inflight = Idle
    /\ Held(h)
    /\ Reply("remove", "EIO", "none")
    /\ UNCHANGED <<tree, inodes, data_blocks, inode_seq, handles, inflight>>

\* Remove when CountNodesInDir fails
RemoveCountFails ==
    /\ inflight.pc = "remove_count"
    /\ Reply("remove", "EIO", "none")
    /\ inflight' = Idle
    /\ UNCHANGED <<tree, inodes, data_blocks, inode_seq, handles>>

\* RemoveNodeByName when a statement fails and the rollback is left out
RemoveCommitFails_NoRollback ==
    /\ inflight.pc = "remove_tx"
    /\ tree' = {r \in tree : ~(r.parent = inflight.parent /\ r.name = inflight.name)}
    /\ Reply("remove", "EIO", "rolledback")
    /\ inflight' = Idle
    /\ UNCHANGED <<inodes, data_blocks, inode_seq, handles>>

\* Remove when a statement of RemoveNodeByName (or its Commit) fails
RemoveCommitFails ==
    /\ inflight.pc = "remove_tx"
    /\ Reply("remove", "EIO", "rolledback")
    /\ inflight' = Idle
    /\ UNCHANGED <<tree, inodes, data_blocks, inode_seq, handles>>

\* Link when a statement of CreateLink (or its Commit) fails
LinkCommitFails ==
    /\ inflight.pc = "link_commit"
    /\ Reply("link", "EIO", "rolledback")
    /\ inflight' = Idle
    /\ UNCHANGED <<tree, inodes, data_blocks, inode_seq, handles>>

\* Link when CreateLink commits and the GetNodeByID after it fails
LinkReadFails ==
    /\ inflight.pc = "link_commit"
    /\ IF UniqueOK(tree, inflight.parent, inflight.name)
       THEN /\ tree' = tree \cup {[inode |-> inflight.inode,
                                    parent |-> inflight.parent,
                                    name |-> inflight.name]}
            /\ inodes' = [inodes EXCEPT
                             ![inflight.inode] = toJSON(IncNlink(inflight.node))]
            /\ Reply("link", "EIO", "committed")
       ELSE /\ Reply("link", "EIO", "rolledback")
            /\ UNCHANGED <<tree, inodes>>
    /\ inflight' = Idle
    /\ UNCHANGED <<data_blocks, inode_seq, handles>>

\* Rename when the UPDATE of RenameNode fails
RenameFails(h, newDir) ==
    /\ Held(h)
    /\ Held(newDir)
    /\ Reply("rename", "EIO", "none")
    /\ UNCHANGED <<tree, inodes, data_blocks, inode_seq, handles, inflight>>

\* Write when a statement of WriteData (or its Commit) fails.
\* late: the failure came after n.Size was assigned (q3 or Commit).
WriteDataFails(h, data, late) ==
    /\ Held(h)
    /\ handles' = IF late
                  THEN [handles EXCEPT ![h].Size = BLen(data)]
                  ELSE handles
    /\ Reply("write", "EIO", "rolledback")
    /\ UNCHANGED <<tree, inodes, data_blocks, inode_seq, inflight>>

\* Read when the SELECT of ReadData fails
ReadFails(h) ==
    /\ Held(h)
    /\ Reply("read", "EIO", "none")
    /\ UNCHANGED <<tree, inodes, data_blocks, inode_seq, handles, inflight>>

\* Setattr when the UPSERT of UpdateNode fails: the node object is changed
SetattrFails(h, size) ==
    /\ Held(h)
    /\ handles' = [handles EXCEPT ![h].Size = size]
    /\ Reply("setattr", "EIO", "none")
    /\ UNCHANGED <<tree, inodes, data_blocks, inode_seq, inflight>>

(***************************************************************************)
(* fileSystem.Statfs: CountDataBlocks, then CountInodes, two statements    *)
(* outside any transaction.  A count that fails is logged and its field    *)
(* keeps the zero value; Statfs returns nil either way.                    *)
(***************************************************************************)
\* SELECT COUNT(*) FROM inodes
CountInodes(ino) == Cardinality({i \in DOMAIN ino : ino[i] # NoRow})

\* SELECT COUNT(*) FROM data_blocks
CountDataBlocks(blocks) == Cardinality(blocks)

\* the fuse.StatfsResponse returned; Bfree, Bavail, Ffree are never assigned
StatfsResponse(blocks, files) ==
    [op |-> "statfs", err |-> "ok", tx |-> "none", data |-> NoBytes, rows |-> 0,
     Bsize |-> BLOCK_SIZE, Frsize |-> BLOCK_SIZE, Blocks |-> blocks,
     Files |-> files, Bfree |-> 0, Bavail |-> 0, Ffree |-> 0]

StatfsBegin(fails) ==
    /\ inflight = Idle
    /\ inflight' = [Idle EXCEPT
                       !.pc = "statfs_inodes",
                       !.count = IF fails THEN 0 ELSE CountDataBlocks(data_blocks)]
    /\ UNCHANGED <<tree, inodes, data_blocks, inode_seq, handles, resp>>

StatfsEnd(fails) ==
    /\ inflight.pc = "statfs_inodes"
    /\ resp' = StatfsResponse(inflight.count,
                              IF fails THEN 0 ELSE CountInodes(inodes))
    /\ inflight' = Idle
    /\ UNCHANGED <<tree, inodes, data_blocks, inode_seq, handles>>

(***************************************************************************)
(* The requests the kernel sends.  It sends a request on a directory       *)
(* (lookup, create, mkdir, mknod, symlink, link, unlink, rmdir, rename)    *)
(* only to a node whose attributes say directory, read and write only to   *)
(* regular files, rmdir only for a directory and unlink only for another   *)
(* node, and it refuses link(2) on a directory itself.                     *)
(***************************************************************************)
Slots == 1..MaxHandles

HeldHandles == {h \in HandleIds : Held(h)}

DirHandles == {h \in HeldHandles : IsDirectory(handles[h])}

FileHandles == {h \in HeldHandles : IsRegular(handles[h])}

\* req.Dir as the kernel sets it for the entry (h, name)
RemoveFlags(h, name) ==
    {IsDirectory(GetNodeByName(tree, inodes, handles[h].Inode, name))}

\* the nodes a link is requested for in the model
Linkable ==
    {h \in HeldHandles :
        /\ CountRefs(tree, handles[h].Inode) < MaxLinks
        /\ GetNodeByID(inodes, handles[h].Inode).Nlink
              <= CountRefs(tree, handles[h].Inode) + MaxSkew}

LinkOld == {h \in Linkable : ~IsDirectory(handles[h])}

\* req.Data in Spec: two blocks
SmallInputs == {Buffer(1, BLOCK_SIZE + 1)}

Next ==
    \/ \E h \in DirHandles, name \in Names, slot \in Slots : Mkdir(h, name, slot)
    \/ \E h \in DirHandles, name \in Names, slot \in Slots : Create(h, name, slot)
    \/ \E h \in DirHandles, name \in Names, slot \in Slots : Mknod(h, name, slot)
    \/ \E h \in DirHandles, name \in Names, slot \in Slots : Symlink(h, name, slot)
    \/ \E h \in DirHandles, name \in Names, slot \in Slots : Lookup(h, name, slot)
    \/ \E h \in DirHandles, name \in Names :
          \E dir \in RemoveFlags(h, name) : RemoveBegin(h, name, dir)
    \/ RemoveCount
    \/ RemoveCommit
    \/ \E h \in DirHandles, name \in Names :
          \E dir \in RemoveFlags(h, name) : RemoveWhole(h, name, dir)
    \/ \E h \in DirHandles, old \in LinkOld, name \in Names, slot \in Slots :
          LinkBegin(h, old, name, slot)
    \/ LinkCommit
    \/ \E h \in DirHandles, old \in LinkOld, name \in Names, slot \in Slots :
          LinkWhole(h, old, name, slot)
    \/ \E h \in DirHandles, newDir \in DirHandles, oldName \in Names, newName \in Names :
          Rename(h, oldName, newDir, newName)
    \/ \E h \in FileHandles, data \in SmallInputs : Write(h, data)
    \/ \E h \in FileHandles : Read(h)

Spec == Init /\ [][Next]_vars

(***************************************************************************)
(* SpecRaw: the requests the bridge can deliver when the kernel's checks   *)
(* are not relied on: any held node as receiver and as link target, either *)
(* req.Dir for any entry.                                                  *)
(***************************************************************************)
NextRaw ==
    \/ \E h \in HeldHandles, name \in Names, slot \in Slots : Mkdir(h, name, slot)
    \/ \E h \in HeldHandles, name \in Names, slot \in Slots : Create(h, name, slot)
    \/ \E h \in HeldHandles, name \in Names, slot \in Slots : Symlink(h, name, slot)
    \/ \E h \in HeldHandles, name \in Names, slot \in Slots : Lookup(h, name, slot)
    \/ \E h \in HeldHandles, name \in Names, dir \in BOOLEAN : RemoveBegin(h, name, dir)
    \/ RemoveCount
    \/ RemoveCommit
    \/ \E h \in HeldHandles, old \in Linkable, name \in Names, slot \in Slots :
          LinkBegin(h, old, name, slot)
    \/ LinkCommit

SpecRaw == Init /\ [][NextRaw]_vars

(***************************************************************************)
(* SpecData: content.  Files under the root, written with every request    *)
(* buffer and read back.                                                   *)
(***************************************************************************)
NextData ==
    \/ \E name \in Names, slot \in Slots : Create(0, name, slot)
    \/ \E h \in FileHandles, data \in WriteInputs : Write(h, data)
    \/ \E h \in FileHandles : Read(h)

SpecData == Init /\ [][NextData]_vars

(***************************************************************************)
(* SpecFile: files under the root with writes that overlap and setattr.    *)
(* A node object is not replaced while a request on it is being served.    *)
(***************************************************************************)
\* req.Size of a setattr
SetattrSizes == {0, BLOCK_SIZE}

NextFile ==
    \/ \E name \in Names, slot \in Slots \ {inflight.slot} : Create(0, name, slot)
    \/ \E h \in FileHandles, data \in WriteInputs : WriteBegin(h, data)
    \/ WriteCommit
    \/ \E h \in FileHandles, data \in WriteInputs : Write(h, data)
    \/ \E h \in FileHandles : Read(h)
    \/ \E h \in FileHandles, size \in SetattrSizes : Setattr(h, size)

SpecFile == Init /\ [][NextFile]_vars

(***************************************************************************)
(* SpecRoot: create, lookup, link and setattr on any node the kernel      *)
(* holds, the root included.  UpdateNode upserts the node row of whatever  *)
(* inode the node object carries.                                          *)
(***************************************************************************)
NextRoot ==
    \/ \E h \in DirHandles, name \in Names, slot \in Slots : Create(h, name, slot)
    \/ \E h \in DirHandles, name \in Names, slot \in Slots : Lookup(h, name, slot)
    \/ \E h \in HeldHandles, size \in SetattrSizes : Setattr(h, size)
    \/ \E h \in DirHandles, old \in Linkable, name \in Names, slot \in Slots :
          LinkBegin(h, old, name, slot)
    \/ LinkCommit

SpecRoot == Init /\ [][NextRoot]_vars

(***************************************************************************)
(* SpecFail: the handlers with a store whose statements may fail.          *)
(***************************************************************************)
NextFail ==
    \/ \E h \in DirHandles, name \in Names, slot \in Slots : Mkdir(h, name, slot)
    \/ \E h \in DirHandles, name \in Names, slot \in Slots : Create(h, name, slot)
    \/ \E h \in DirHandles, name \in Names, slot \in Slots : Lookup(h, name, slot)
    \/ \E h \in DirHandles, name \in Names :
          \E dir \in RemoveFlags(h, name) : RemoveBegin(h, name, dir)
    \/ RemoveCount
    \/ RemoveCommit
    \/ \E h \in DirHandles, old \in LinkOld, name \in Names, slot \in Slots :
          LinkBegin(h, old, name, slot)
    \/ LinkCommit
    \/ \E h \in FileHandles, data \in SmallInputs : Write(h, data)
    \/ \E h \in DirHandles, name \in Names, drawn \in BOOLEAN,
          op \in {"mkdir", "create", "mknod", "symlink"} :
          UpsertNodeFails(op, h, name, drawn)
    \/ \E h \in DirHandles, name \in Names : LookupFails(h, name)
    \/ \E h \in DirHandles, name \in Names : RemoveBeginFails(h, name)
    \/ RemoveCountFails
    \/ RemoveCommitFails
    \/ LinkCommitFails
    \/ LinkReadFails
    \/ \E h \in DirHandles, newDir \in DirHandles : RenameFails(h, newDir)
    \/ \E h \in FileHandles, data \in SmallInputs, late \in BOOLEAN :
          WriteDataFails(h, data, late)
    \/ \E h \in FileHandles : ReadFails(h)
    \/ \E h \in FileHandles, size \in SetattrSizes : SetattrFails(h, size)
    \/ \E fails \in BOOLEAN : StatfsBegin(fails)
    \/ \E fails \in BOOLEAN : StatfsEnd(fails)

SpecFail == Init /\ [][NextFail]_vars

(***************************************************************************)
(* Properties.                                                             *)
(***************************************************************************)
\* C1. In every state, an inode whose node row stores a link count L > 0 is
\* referenced by exactly L tree entries.
C1_LinkCountEqualsEntries ==
    \A i \in InodeIds :
        (inodes[i] # NoRow /\ inodes[i].Nlink > 0)
            => CountRefs(tree, i) = inodes[i].Nlink

\* C2. A remove that succeeds on one of two or more entries of inode i
\* deletes exactly that entry, keeps the node row, the data blocks and the
\* other entries, and leaves the stored link count of i one lower.
C2_RemoveOneOfSeveralLinks ==
    [][\A i \in InodeIds :
          (/\ RemoveCommit
           /\ TreeLookup(tree, inflight.parent, inflight.name) = {i}
           /\ CountRefs(tree, i) >= 2
           /\ resp'.err = "ok")
          => /\ tree' = tree \ {[inode |-> i, parent |-> inflight.parent,
                                 name |-> inflight.name]}
             /\ GetNodeByName(tree', inodes', inflight.parent, inflight.name) = NoNode
             /\ inodes' = [inodes EXCEPT ![i].Nlink = @ - 1]
             /\ data_blocks' = data_blocks]_vars

\* C3. A remove that succeeds on the last entry of inode i leaves no tree
\* entry for (parent, name), no node row for i and no data block of i.
C3_RemoveLastLink ==
    [][\A i \in InodeIds :
          (/\ RemoveCommit
           /\ TreeLookup(tree, inflight.parent, inflight.name) = {i}
           /\ CountRefs(tree, i) = 1
           /\ resp'.err = "ok")
          => /\ TreeLookup(tree', inflight.parent, inflight.name) = {}
             /\ inodes'[i] = NoRow
             /\ \A b \in data_blocks' : b.inode # i]_vars

\* C4. A remove with the directory flag whose target has a child tree entry
\* of any type answers ENOTEMPTY and changes no relation; no step that
\* answers ENOTEMPTY changes a relation.
C4_NonEmptyDirectoryKept ==
    [][/\ (/\ RemoveCount
           /\ \E r \in tree : r.parent = inflight.inode)
          => (resp'.op = "remove" /\ resp'.err = "ENOTEMPTY" /\ UNCHANGED db)
       /\ (resp'.op = "remove" =>
             \A h \in HandleIds, name \in Names :
                (/\ \E i \in TreeLookup(tree, handles[h].Inode, name) :
                       /\ inodes[i] # NoRow
                       /\ \E r \in tree : r.parent = i
                 /\ RemoveWhole(h, name, TRUE))
                => (resp'.err = "ENOTEMPTY" /\ UNCHANGED db))
       /\ (resp'.err = "ENOTEMPTY" => UNCHANGED db)]_vars

\* C4: the last reply is ENOTEMPTY and a directory below the root holds an
\* entry that is not a directory.
C4_Witness ==
    /\ resp.op = "remove"
    /\ resp.err = "ENOTEMPTY"
    /\ \E r \in tree :
          /\ r.parent # rootInode
          /\ IsDirectory(GetNodeByID(inodes, r.parent))
          /\ ~IsDirectory(GetNodeByID(inodes, r.inode))

\* C5. In every state the tree holds at most one entry per (parent, name).
C5_NameUniquePerDirectory ==
    \A r1 \in tree, r2 \in tree :
        (r1.parent = r2.parent /\ r1.name = r2.name) => r1 = r2

\* C5: a rename onto a name that another entry holds has just been refused.
C5_Witness ==
    /\ resp.op = "rename"
    /\ resp.err = "EIO"
    /\ Cardinality(tree) >= 2

\* C6. In every state the inode of every tree entry and of every data block
\* has a node row.
C6_ReferencedNodesExist ==
    /\ \A r \in tree : GetNodeByID(inodes, r.inode) # NoNode
    /\ \A b \in data_blocks : GetNodeByID(inodes, b.inode) # NoNode

\* C6: a remove has just committed and entries and data blocks are left.
C6_Witness ==
    /\ resp.op = "remove"
    /\ resp.tx = "committed"
    /\ tree # {}
    /\ data_blocks # {}

\* C7. A write of b to a file, for b of length 0, one chunk, one chunk plus
\* one byte or three chunks plus seven bytes, leaves content that ReadData
\* returns as exactly b, whatever the file held before.
C7_WriteThenRead ==
    [][\A h \in HandleIds, data \in WriteInputs :
          Write(h, data)
          => /\ resp'.err = "ok"
             /\ ReadData(data_blocks', handles[h].Inode) = data]_vars

\* C7: a read has just returned three chunks plus seven bytes from four rows.
C7_Witness ==
    /\ resp.op = "read"
    /\ BLen(resp.data) = 3 * BLOCK_SIZE + 7
    /\ \E h \in FileHandles :
          /\ resp.data = ReadData(data_blocks, handles[h].Inode)
          /\ Cardinality({b \in data_blocks : b.inode = handles[h].Inode}) = 4

\* C8. An insert (mkdir, create, mknod, symlink) of a name with no entry in a
\* directory succeeds, and the name then resolves to the node with the
\* identifier the insert drew, whose node row exists.
C8_InsertThenResolve ==
    [][resp'.tx = "committed" =>
       \A h \in HandleIds, name \in Names, slot \in Slots :
          (/\ \/ Mkdir(h, name, slot)
              \/ Create(h, name, slot)
              \/ Mknod(h, name, slot)
              \/ Symlink(h, name, slot)
           /\ IsDirectory(handles[h])
           /\ TreeLookup(tree, handles[h].Inode, name) = {})
          => LET resolved == GetNodeByName(tree', inodes', handles[h].Inode, name) IN
             /\ resp'.err = "ok"
             /\ resolved # NoNode
             /\ resolved.Inode = inode_seq
             /\ handles'[slot].Inode = inode_seq
             /\ inodes'[inode_seq] # NoRow]_vars

\* C8: an insert into a directory below the root has just succeeded and the
\* handle it returned is the node of the new entry.
C8_Witness ==
    /\ resp.op \in {"mkdir", "create", "mknod", "symlink"}
    /\ resp.err = "ok"
    /\ \E r \in tree, s \in Slots :
          /\ r.parent # rootInode
          /\ r.inode = inode_seq - 1
          /\ handles[s].Inode = r.inode

\* C9. A rename of an existing entry to a destination with no entry
\* succeeds; the old name then resolves to nothing, the new name to the
\* inode the old name had, the content of that inode is the same, and every
\* other tree entry, every node row and every data block is unchanged.
C9_RenameToFreeName ==
    [][resp'.op = "rename" =>
       \A h \in HandleIds, oldName \in Names :
       \A i \in TreeLookup(tree, handles[h].Inode, oldName) :
       \A newDir \in HandleIds, newName \in Names :
          (/\ TreeLookup(tree, handles[newDir].Inode, newName) = {}
           /\ Rename(h, oldName, newDir, newName))
          => LET old == [inode |-> i, parent |-> handles[h].Inode, name |-> oldName]
                 new == [inode |-> i, parent |-> handles[newDir].Inode,
                         name |-> newName]
             IN /\ resp'.err = "ok"
                /\ GetNodeByName(tree', inodes', old.parent, old.name) = NoNode
                /\ TreeLookup(tree', new.parent, new.name) = {i}
                /\ GetNodeByName(tree', inodes', new.parent, new.name)
                      = GetNodeByID(inodes, i)
                /\ ReadData(data_blocks', i) = ReadData(data_blocks, i)
                /\ tree' \ {new} = tree \ {old}
                /\ inodes' = inodes
                /\ data_blocks' = data_blocks]_vars

\* C9: a rename has just moved an entry, a file with content sits in a
\* directory below the root, and another entry exists.
C9_Witness ==
    /\ resp.op = "rename"
    /\ resp.err = "ok"
    /\ resp.rows = 1
    /\ Cardinality(tree) >= 2
    /\ \E r \in tree :
          /\ r.parent # rootInode
          /\ ReadData(data_blocks, r.inode) # NoBytes

\* C10. A link whose existing node is a directory is refused and changes no
\* relation, and after every step a directory is the target of at most one
\* tree entry.
C10_NoLinkToDirectory ==
    [][/\ (LinkCommit /\ IsDirectory(inflight.node))
          => (resp'.err # "ok" /\ UNCHANGED db)
       /\ \A i \in InodeIds :
             IsDirectory(GetNodeByID(inodes', i)) => CountRefs(tree', i) <= 1]_vars

\* C11. When writes to one inode overlap and both commit, the write that
\* commits last leaves exactly its own content: ReadData returns its bytes,
\* every block of the inode is a piece of its buffer, and the size in the
\* node row is its length.
C11_LastCommittedWriteWins ==
    [][/\ WriteCommit =>
             LET i == handles[inflight.slot].Inode
                 b == inflight.data
             IN /\ ReadData(data_blocks', i) = b
                /\ \A r \in data_blocks' :
                      r.inode = i =>
                         \A k \in 1..Len(r.data) :
                            \E j \in 1..Len(b) : r.data[k].buf = b[j].buf
                /\ GetNodeByID(inodes', i).Size = BLen(b)
       /\ (resp'.op = "write" =>
             \A h \in HandleIds, b \in WriteInputs :
                Write(h, b) =>
                   /\ ReadData(data_blocks', handles[h].Inode) = b
                   /\ GetNodeByID(inodes', handles[h].Inode).Size = BLen(b))]_vars

\* C11: a write is between its begin and its commit, and since its DELETE
\* ran another write has committed different, non-empty content to the inode.
C11_Witness ==
    /\ inflight.pc = "write_tx"
    /\ inflight.data # NoBytes
    /\ resp.op = "write"
    /\ ReadData(data_blocks, inflight.inode) # NoBytes
    /\ ReadData(data_blocks, inflight.inode) # inflight.data
    /\ Cardinality({b \in data_blocks : b.inode = inflight.inode}) # inflight.count

\* C12. When a statement of a multi-statement mutation (UpsertNode,
\* CreateLink, RemoveNodeByName, WriteData) fails, the transaction is rolled
\* back: tree, inodes and data_blocks are what they were before the
\* operation, and the operation returns an error.
C12_FailedMutationRolledBack ==
    [][/\ resp'.tx = "rolledback" =>
             /\ UNCHANGED <<tree, inodes, data_blocks>>
             /\ resp'.err # "ok"
       /\ (\/ RemoveCommitFails
           \/ LinkCommitFails
           \/ \E h \in HandleIds, data \in SmallInputs, late \in BOOLEAN :
                 WriteDataFails(h, data, late)
           \/ \E h \in HandleIds, name \in Names, drawn \in BOOLEAN,
                 op \in {"mkdir", "create", "mknod", "symlink"} :
                 UpsertNodeFails(op, h, name, drawn))
          => /\ resp'.tx = "rolledback"
             /\ UNCHANGED <<tree, inodes, data_blocks>>
             /\ resp'.err # "ok"]_vars

\* C12: a remove whose transaction failed has returned, and the tree still
\* holds entries.
C12_Witness ==
    /\ resp.op = "remove"
    /\ resp.tx = "rolledback"
    /\ resp.err = "EIO"
    /\ inflight = Idle
    /\ tree # {}

\* C13. An insert or a link onto a (parent, name) that already has an entry
\* fails with the AlreadyExists error, not with the I/O error, allocates no
\* node row and leaves the existing entry and its node unchanged.
C13_DuplicateReportsAlreadyExists ==
    [][/\ \A h \in HandleIds, name \in Names, slot \in Slots :
             (/\ ~UniqueOK(tree, handles[h].Inode, name)
              /\ \/ Mkdir(h, name, slot)
                 \/ Create(h, name, slot)
                 \/ Mknod(h, name, slot)
                 \/ Symlink(h, name, slot))
             => /\ resp'.err = "EEXIST"
                /\ UNCHANGED <<tree, inodes, data_blocks>>
       /\ (LinkCommit /\ ~UniqueOK(tree, inflight.parent, inflight.name))
             => /\ resp'.err = "EEXIST"
                /\ UNCHANGED <<tree, inodes, data_blocks>>]_vars

\* C14. Lookup and remove of a name that has no entry in the directory
\* report NotFound and change no relation.
C14_MissingNameReportsNotFound ==
    [][\A h \in HandleIds, name \in Names :
          (/\ Held(h)
           /\ IsDirectory(handles[h])
           /\ GetNodeByName(tree, inodes, handles[h].Inode, name) = NoNode
           /\ \/ \E slot \in Slots : Lookup(h, name, slot)
              \/ \E dir \in BOOLEAN : RemoveBegin(h, name, dir)
              \/ \E dir \in BOOLEAN : RemoveWhole(h, name, dir))
          => /\ resp'.err = "ENOENT"
             /\ UNCHANGED <<tree, inodes, data_blocks>>]_vars

\* C15. A failure of a store statement or transaction inside lookup, create,
\* mkdir, mknod, symlink, link, rename, remove, read, write or setattr is
\* returned to the caller as the generic I/O error: never success, never
\* NotFound.
C15_StoreFailureIsIOError ==
    [][(\/ \E h \in HandleIds, name \in Names : LookupFails(h, name)
        \/ \E h \in HandleIds, name \in Names, drawn \in BOOLEAN,
              op \in {"mkdir", "create", "mknod", "symlink"} :
              UpsertNodeFails(op, h, name, drawn)
        \/ \E h \in HandleIds, name \in Names : RemoveBeginFails(h, name)
        \/ RemoveCountFails
        \/ RemoveCommitFails
        \/ LinkCommitFails
        \/ LinkReadFails
        \/ \E h \in HandleIds, newDir \in HandleIds : RenameFails(h, newDir)
        \/ \E h \in HandleIds, data \in SmallInputs, late \in BOOLEAN :
              WriteDataFails(h, data, late)
        \/ \E h \in HandleIds : ReadFails(h)
        \/ \E h \in HandleIds, size \in SetattrSizes : SetattrFails(h, size))
       => resp'.err = "EIO"]_vars

\* C16. Lookup, create, mkdir, mknod, symlink and link on a receiver that is
\* not a directory (the root excepted) fail with the I/O error and change no
\* relation, so no tree entry ever has a non-directory as its parent.
C16_NonDirectoryReceiverRejected ==
    [][/\ \A h \in HandleIds, name \in Names, slot \in Slots :
             (/\ Held(h)
              /\ ~IsDirectory(handles[h])
              /\ handles[h].Inode # rootInode
              /\ \/ Lookup(h, name, slot)
                 \/ Create(h, name, slot)
                 \/ Mkdir(h, name, slot)
                 \/ Mknod(h, name, slot)
                 \/ Symlink(h, name, slot)
                 \/ \E old \in HandleIds : LinkBegin(h, old, name, slot))
             => /\ resp'.err = "EIO"
                /\ UNCHANGED <<tree, inodes, data_blocks>>
       /\ \A r \in tree' :
             \/ r.parent = rootInode
             \/ IsDirectory(GetNodeByID(inodes', r.parent))]_vars

\* C17. In every reachable state, for every regular-file inode, the total
\* length of its data blocks in ascending sequence order equals the Size in
\* its node row, whatever writes and setattrs (size changes included) ran.
C17_SizeEqualsBlockLength ==
    \A i \in InodeIds :
       (inodes[i] # NoRow /\ IsRegular(GetNodeByID(inodes, i)))
       => BLen(ReadData(data_blocks, i)) = GetNodeByID(inodes, i).Size

\* C18. Statfs always reports the chunk constant as block size, the number
\* of rows of data_blocks as total blocks, the number of rows of inodes as
\* total inodes and zero for every free count, and modifies no relation.
C18_StatfsReportsCounts ==
    [][\A fails \in BOOLEAN :
          StatfsEnd(fails) =>
             /\ resp'.Bsize = BLOCK_SIZE
             /\ resp'.Blocks = Cardinality(data_blocks')
             /\ resp'.Files = Cardinality({i \in InodeIds : inodes'[i] # NoRow})
             /\ resp'.Bfree = 0
             /\ resp'.Bavail = 0
             /\ resp'.Ffree = 0
             /\ UNCHANGED <<tree, inodes, data_blocks>>]_vars

\* C19. After a successful write of n bytes the inode has exactly
\* ceil(n / BLOCK_SIZE) data blocks, with sequences 1..ceil(n / BLOCK_SIZE)
\* and none left from earlier content; every block but the last holds
\* BLOCK_SIZE bytes, the last holds 1..BLOCK_SIZE bytes, n = 0 leaves no
\* block, and Size in the node row is n.
C19_WriteBlockLayout ==
    [][resp'.op = "write" =>
          \A h \in HandleIds, data \in WriteInputs :
             Write(h, data) =>
                LET i == handles[h].Inode
                    n == BLen(data)
                    k == (n + BLOCK_SIZE - 1) \div BLOCK_SIZE
                    rows == {b \in data_blocks' : b.inode = i}
                IN /\ {b.sequence : b \in rows} = 1..k
                   /\ Cardinality(rows) = k
                   /\ \A b \in rows :
                         IF b.sequence < k
                         THEN BLen(b.data) = BLOCK_SIZE
                         ELSE BLen(b.data) >= 1 /\ BLen(b.data) <= BLOCK_SIZE
                   /\ (n = 0 => rows = {})
                   /\ GetNodeByID(inodes', i).Size = n]_vars

\* C19: a write of three full chunks and seven bytes has returned; the inode
\* has four blocks.
C19_Witness ==
    /\ resp.op = "write"
    /\ resp.err = "ok"
    /\ \E i \in InodeIds :
          /\ GetNodeByID(inodes, i).Size = 3 * BLOCK_SIZE + 7
          /\ Cardinality({b \in data_blocks : b.inode = i}) = 4
          /\ \E b \in data_blocks :
                b.inode = i /\ b.sequence = 4 /\ BLen(b.data) = 7

\* C20. Every transaction an operation begins has been committed or rolled
\* back when the operation returns: no reply leaves its transaction open.
C20_TransactionsEnded == resp.tx # "open"

\* C21. A link to an existing inode that commits inserts its tree entry and
\* raises the stored link count of the inode by exactly one, also when
\* another link on the same inode commits between its begin and its commit:
\* no increment is lost.
C21_LinkRaisesCountByOne ==
    [][(/\ LinkCommit
        /\ resp'.tx = "committed"
        /\ inodes[inflight.inode] # NoRow
        /\ CountRefs(tree, inflight.inode) > 0) =>
          /\ GetNodeByID(inodes', inflight.inode).Nlink
                = GetNodeByID(inodes, inflight.inode).Nlink + 1
          /\ CountRefs(tree', inflight.inode) = CountRefs(tree, inflight.inode) + 1]_vars

\* C22. In every reachable state every node row and every data block row
\* belongs to an inode that at least one tree entry references: after the
\* last entry of an inode is removed, no write, setattr or link through a
\* node obtained earlier leaves a node row or data blocks for it.
C22_RowsAreReferenced ==
    \A i \in InodeIds :
       (inodes[i] # NoRow \/ \E b \in data_blocks : b.inode = i)
       => CountRefs(tree, i) > 0

\* C23. A successful insert draws an inode identifier greater than rootInode
\* and different from every identifier drawn before (the sequence only
\* moves forward and every identifier in the store or held by a node is
\* below it), and commits the tree entry and the node row together, with
\* Nlink 2 for mkdir and 1 for create, mknod and symlink.
C23_InsertAllocatesFreshInode ==
    [][/\ inode_seq' >= inode_seq
       /\ (resp'.tx = "committed"
           /\ resp'.op \in {"mkdir", "create", "mknod", "symlink"}) =>
             \A h \in HandleIds, name \in Names, slot \in Slots :
                (\/ Mkdir(h, name, slot)
                 \/ Create(h, name, slot)
                 \/ Mknod(h, name, slot)
                 \/ Symlink(h, name, slot))
                => LET lastId == handles'[slot].Inode IN
                   /\ lastId > rootInode
                   /\ lastId = inode_seq
                   /\ inode_seq' = lastId + 1
                   /\ \A r \in tree : r.inode < lastId /\ r.parent < lastId
                   /\ \A b \in data_blocks : b.inode < lastId
                   /\ \A i \in InodeIds : inodes[i] # NoRow => i < lastId
                   /\ \A g \in HandleIds : handles[g].Inode < lastId
                   /\ tree' = tree \cup {[inode |-> lastId,
                                          parent |-> handles[h].Inode,
                                          name |-> name]}
                   /\ inodes[lastId] = NoRow
                   /\ inodes'[lastId] # NoRow
                   /\ GetNodeByID(inodes', lastId).Nlink
                         = IF resp'.op = "mkdir" THEN 2 ELSE 1]_vars

\* C23: a mkdir has drawn identifier 3 after the node of identifier 2 was
\* removed; the new directory has its entry and its node row with Nlink 2.
C23_Witness ==
    /\ resp.op = "mkdir"
    /\ resp.err = "ok"
    /\ inode_seq = 4
    /\ inodes[2] = NoRow
    /\ GetNodeByID(inodes, 3).Nlink = 2
    /\ \E r \in tree : r.inode = 3
    /\ \A r \in tree : r.inode # 2

\* C24. In every reachable state no tree entry has rootInode as its inode:
\* no sequence of operations, setattr on the root followed by a link with
\* the root as the existing node included, stores a tree row that points at
\* the root.
C24_NoEntryForRoot == \A r \in tree : r.inode # rootInode

\* C25. The parent of every tree entry is rootInode or the inode of an
\* existing directory node that has a tree entry itself, and a remove keeps
\* it so: a remove of an empty directory that commits while an insert or a
\* rename into that directory has committed since its emptiness test leaves
\* no children under the removed directory.
C25_ParentsAreDirectories ==
    [][LET ParentsOK(t, ino) ==
              \A r \in t :
                 \/ r.parent = rootInode
                 \/ /\ ino[r.parent] # NoRow
                    /\ IsDirectory(GetNodeByID(ino, r.parent))
                    /\ CountRefs(t, r.parent) > 0
       IN (RemoveCommit /\ resp'.tx = "committed" /\ ParentsOK(tree, inodes))
             => ParentsOK(tree', inodes')]_vars

\* C26. A write or a setattr changes neither the stored link count, nor the
\* type, nor the symlink target of the node: through a node obtained before
\* a later link to the same inode, it leaves the stored link count at the
\* value the link committed.
C26_WriteKeepsLinkCount ==
    [][\A h \in HandleIds :
          (/\ Held(h)
           /\ inodes[handles[h].Inode] # NoRow
           /\ \/ \E data \in WriteInputs \cup SmallInputs : Write(h, data)
              \/ \E size \in SetattrSizes : Setattr(h, size))
          => LET before == GetNodeByID(inodes, handles[h].Inode)
                 after == GetNodeByID(inodes', handles[h].Inode)
             IN /\ after.Nlink = before.Nlink
                /\ after.Mode = before.Mode
                /\ after.SymlinkTarget = before.SymlinkTarget]_vars

====
